---- MODULE Spec2Model ----
(***************************************************************************)
(* TensorFlow integration of the haste GRU layer (frameworks/tf/gru.cc):   *)
(* the forward driver HasteGruOp::Compute, the backward driver             *)
(* HasteGruGradOp::Compute and the per-device cuBLAS handle cache          *)
(* GetCublasHandle.                                                        *)
(*                                                                         *)
(* Tensors are modelled by their shapes (tuples of dimension sizes) and,   *)
(* where a claim reads them, by one symbolic content per time slice.       *)
(* A device pointer is modelled by the index of the slice it points to;    *)
(* Null is the null pointer.                                               *)
(***************************************************************************)
EXTENDS Integers, Sequences, FiniteSets, TLC

\* ---------------------------------------------------------------- bounds
MaxT == 3          \* longest sequence (time_steps) explored
MaxDim == 2        \* largest batch / input / hidden size explored
NumThreads == 2    \* threads calling GetCublasHandle
NumDevices == 2    \* value returned by cudaGetDeviceCount

Null == -1         \* nullptr

Dims == 0..MaxDim
PosDims == 1..MaxDim
ProbValues == {0, 50, 100}        \* zoneout_prob_ in percent: 0.0, 0.5, 1.0
GarbageValues == {0, 5}           \* what freshly allocated memory may hold
Threads == 1..NumThreads
Devices == 0..(NumDevices - 1)

VARIABLES
  \* --- the op's inputs and attributes
  input,              \* shape of x: <<T, N, C>>
  kernel,             \* shape of kernel: <<C', 3H'>>
  recurrent_kernel,   \* shape of recurrent_kernel: <<H, 3H>>
  zoneout_mask,       \* shape of zoneout_mask
  training_,          \* attribute "training"
  zoneout_prob_,      \* attribute "zoneout_prob"
  garbage,            \* the value uninitialised accumulator memory holds
  \* --- the op thread
  pc,                 \* position of the op thread in Compute
  status,             \* context status: "OK" or "InvalidArgument"
  i,                  \* loop counter of the running Compute
  \* --- HasteGruOp::Compute
  output,             \* output 0: NotAllocated, else [shape, data]
  v_out,              \* output 1: NotAllocated, else [shape, data]
  h,                  \* local Tensor h: index of the output slice it views
  forward,            \* the ForwardPass engine (constructed = FALSE before line 160)
  fwd_calls,          \* ForwardPass::Iterate calls issued so far
  \* --- HasteGruGradOp::Compute
  dx,                 \* output 0: NotAllocated, else [shape, data]
  grads,              \* dW, dR, dbx, dbr, dh (values) and zero_vector (content)
  backward,           \* the BackwardPass engine (constructed = FALSE before line 323)
  bwd_calls,          \* BackwardPass::Iterate calls issued so far
  \* --- CublasHandleContainer / GetCublasHandle
  guard,              \* initialisation guard of the function-local static
  ctor,               \* per thread: locals i, current_device of the constructor it runs
  handles,            \* all_handles.handles
  created,            \* cublasCreate calls per device
  destroyed,          \* handles passed to cublasDestroy
  exited,             \* process shutdown has begun
  dtor,               \* ~CublasHandleContainer: handles destroyed so far, finished
  tpc,                \* per thread: position in GetCublasHandle
  tdev,               \* per thread: device selected (cudaGetDevice)
  tret                \* per thread: device selected at its last call, device read, handle returned

opvars == <<input, kernel, recurrent_kernel, zoneout_mask, training_,
            zoneout_prob_, garbage>>
fwdvars == <<output, v_out, h, forward, fwd_calls>>
bwdvars == <<dx, grads, backward, bwd_calls>>
hvars == <<guard, ctor, handles, created, destroyed, exited, dtor, tpc, tdev, tret>>
vars == <<opvars, pc, status, i, fwdvars, bwdvars, hvars>>

\* ------------------------------------------------------------ tensor helpers
\* Tensor::NumElements
NumElements(shape) ==
  IF Len(shape) = 0 THEN 1
  ELSE IF Len(shape) = 1 THEN shape[1]
  ELSE IF Len(shape) = 2 THEN shape[1] * shape[2]
  ELSE shape[1] * shape[2] * shape[3]

\* contents of one time slice
Uninit == <<"uninit", Null>>
Zero == <<"zero", Null>>
Written(what, t) == <<what, t>>

\* a tensor the op has not allocated yet
NotAllocated == [shape |-> <<>>, data |-> <<>>]
IsAllocated(t) == t.shape # <<>>

\* a freshly allocated tensor of `shape`, one content per slice of dimension 0
Allocate(shape) == [shape |-> shape, data |-> [k \in 1..shape[1] |-> Uninit]]

\* faulty variant: the cudaMemset of line 158 is missing
Memset0_Skipped(t) == t

\* cudaMemset(t.data(), 0, t.AllocatedBytes())
Memset0(t) == [t EXCEPT !.data = [k \in DOMAIN t.data |-> Zero]]

\* content of slice `idx` (0-based) of an allocated tensor; a slice past the
\* end of the allocation holds nothing the program wrote
SliceContent(t, idx) ==
  IF idx + 1 \in DOMAIN t.data THEN t.data[idx + 1] ELSE Uninit

\* ------------------------------------------------ GetCublasHandle (one thread)
\* a cublasHandle_t that holds no handle yet; a thread that has not called
NoHandle == [dev |-> Null, serial |-> 0]
NoReturn == [selected |-> Null, device |-> Null, handle |-> NoHandle]

\* cublasCreate on device d: a handle no earlier call returned
NewHandle(d) == [dev |-> d, serial |-> created[d] + 1]

\* CublasHandleContainer(): one cublasCreate per device, in device order
AllHandles == [k \in 1..NumDevices |-> NewHandle(k - 1)]

\* static CublasHandleContainer all_handles: the thread that finds the static
\* not yet initialised runs the constructor; a thread that finds the
\* initialisation running waits for it
StaticInitNeeded == guard = "uninit"
StaticInitDone == guard = "done"

HandlesAfterCall == IF StaticInitNeeded THEN AllHandles ELSE handles

\* return all_handles.handles[device]
HandleOf(hs, device) == hs[device + 1]

\* what a read of the vector's storage may yield besides the stored handle
\* once ~CublasHandleContainer has run and the storage is freed
GarbageHandle == [dev |-> Null, serial |-> Null]

\* all_handles.handles[device]: the stored handle while the container lives;
\* after its destruction the read is of freed storage, which may still hold
\* the stored handle or anything else
ReadHandles(hs, device) ==
  IF dtor.done THEN {HandleOf(hs, device), GarbageHandle}
               ELSE {HandleOf(hs, device)}

\* GetCublasHandle() run to completion by thread t with no other thread
\* inside; the handle returned is left in tret[t].handle
CallGetCublasHandle(t) ==
  /\ handles' = HandlesAfterCall
  /\ created' = IF StaticInitNeeded THEN [d \in Devices |-> created[d] + 1] ELSE created
  /\ guard' = "done"
  /\ \E hd \in ReadHandles(HandlesAfterCall, tdev[t]) :
       tret' = [tret EXCEPT ![t] = [selected |-> tdev[t], device |-> tdev[t],
                                    handle |-> hd]]
  /\ UNCHANGED <<ctor, destroyed, exited, dtor, tpc, tdev>>

\* ------------------------------------------------------- HasteGruOp::Compute
time_steps == input[1]
batch_size == input[2]
input_size == input[3]
hidden_size == recurrent_kernel[1]
has_zoneout == zoneout_prob_ # 0 /\ NumElements(zoneout_mask) # 0

output_shape == <<time_steps, batch_size, hidden_size>>
\* faulty variant: v is allocated with 4H columns whatever the training flag says
v_out_shape_Always4H == <<input[1], input[2], recurrent_kernel[1] * 4>>

v_out_shape == <<time_steps, batch_size, IF training_ THEN hidden_size * 4 ELSE 0>>

\* the shape function of REGISTER_OP("HasteGru"): shapes of outputs 0 and 1
HasteGruShapeFn == <<
  <<input[1], input[2], recurrent_kernel[1]>>,
  <<input[1], input[2], recurrent_kernel[1] * 4>> >>

\* OP_REQUIRES(input_size == kernel.shape().dim_size(0))
FwdRequires == input_size = kernel[1]

\* the arguments of forward.Iterate in loop iteration k
FwdVArg(k) == IF training_ THEN k ELSE Null
FwdProbArg == IF has_zoneout THEN zoneout_prob_ ELSE 0
FwdMaskArg(k) == IF has_zoneout THEN k ELSE Null
FwdIterateArgs(k) ==
  [ x |-> k, h |-> h, new_h |-> k, v |-> FwdVArg(k), tmp_Wx |-> k,
    zoneout_prob |-> FwdProbArg, zoneout_mask |-> FwdMaskArg(k) ]

\* faulty variant: h is not advanced at the end of the loop body
FwdNextH_Stale(new_h) == h

\* h = new_h  (end of the loop body)
FwdNextH(new_h) == new_h

\* ForwardPass::Iterate: writes the new hidden state to new_h and, when given a
\* v pointer, the gate activations to v
ForwardIterateH(out, a) ==
  [out EXCEPT !.data = [k \in DOMAIN out.data |->
     IF k = a.new_h + 1 THEN Written("h", a.x) ELSE out.data[k]]]
ForwardIterateV(v, a) ==
  [v EXCEPT !.data = [k \in DOMAIN v.data |->
     IF a.v # Null /\ k = a.v + 1 THEN Written("v", a.x) ELSE v.data[k]]]

\* lines 123-139: read the inputs, check the one requirement
FwdBegin ==
  /\ pc = "idle"
  /\ IF FwdRequires
       THEN pc' = "fwd_alloc" /\ status' = status
       ELSE pc' = "fwd_rejected" /\ status' = "InvalidArgument"
  /\ UNCHANGED <<opvars, i, fwdvars, bwdvars, hvars>>

\* lines 141-156: allocate the outputs (and the temporaries)
FwdAllocate ==
  /\ pc = "fwd_alloc"
  /\ output' = Allocate(output_shape)
  /\ v_out' = Allocate(v_out_shape)
  /\ pc' = "fwd_memset"
  /\ UNCHANGED <<opvars, status, i, h, forward, fwd_calls, bwdvars, hvars>>

\* line 158: cudaMemset(output, 0)
FwdMemset ==
  /\ pc = "fwd_memset"
  /\ output' = Memset0(output)
  /\ pc' = "fwd_construct"
  /\ UNCHANGED <<opvars, status, i, v_out, h, forward, fwd_calls, bwdvars, hvars>>

\* lines 160-168: construct the engine, h = output->SubSlice(0), i = 0
FwdConstruct ==
  /\ pc = "fwd_construct"
  /\ CallGetCublasHandle(1)
  /\ forward' = [constructed |-> TRUE, training |-> training_, batch_size |-> batch_size,
                 input_size |-> input_size, hidden_size |-> hidden_size,
                 handle |-> tret'[1].handle]
  /\ h' = 0
  /\ i' = 0
  /\ pc' = "fwd_loop"
  /\ UNCHANGED <<opvars, status, output, v_out, fwd_calls, bwdvars>>

\* lines 168-188: one iteration of the loop
FwdIterate ==
  /\ pc = "fwd_loop"
  /\ i < time_steps
  /\ LET a == FwdIterateArgs(i) IN
       /\ fwd_calls' = Append(fwd_calls,
            [t |-> i, args |-> a, h_content |-> SliceContent(output, a.h)])
       /\ output' = ForwardIterateH(output, a)
       /\ v_out' = ForwardIterateV(v_out, a)
       /\ h' = FwdNextH(a.new_h)
  /\ i' = i + 1
  /\ UNCHANGED <<opvars, pc, status, forward, bwdvars, hvars>>

\* line 168, condition false: Compute returns
FwdReturn ==
  /\ pc = "fwd_loop"
  /\ ~(i < time_steps)
  /\ pc' = "fwd_done"
  /\ UNCHANGED <<opvars, status, i, fwdvars, bwdvars, hvars>>

\* --------------------------------------------------- HasteGruGradOp::Compute
\* the inputs of the gradient op are the transposed inputs of the forward op
x_t == <<input[1], input[3], input[2]>>                            \* [T,C,N]
kernel_t == <<kernel[2], kernel[1]>>                               \* [H*3,C]
recurrent_kernel_t == <<recurrent_kernel[2], recurrent_kernel[1]>> \* [H*3,H]

grad_time_steps == x_t[1]
grad_input_size == x_t[2]
grad_batch_size == x_t[3]
grad_hidden_size == recurrent_kernel_t[2]
grad_has_zoneout == NumElements(zoneout_mask) # 0

dx_shape == <<grad_time_steps, grad_batch_size, grad_input_size>>

\* allocate_output / allocate_temp of dW, dR, dbx, dbr, dh, zero_vector: the
\* memory holds whatever it held before
GradAllocate(g) ==
  [allocated |-> TRUE, dW |-> g, dR |-> g, dbx |-> g, dbr |-> g, dh |-> g,
   zero_vector |-> Uninit]

\* faulty variant: the cudaMemset of dW is missing
GradMemset_SkipDW(g) ==
  [g EXCEPT !.dR = 0, !.dbx = 0, !.dbr = 0, !.dh = 0, !.zero_vector = Zero]

\* faulty variant: the cudaMemset of zero_vector is missing
GradMemset_SkipZeroVector(g) ==
  [g EXCEPT !.dW = 0, !.dR = 0, !.dbx = 0, !.dbr = 0, !.dh = 0]

\* lines 316-321: the six cudaMemset calls
GradMemset(g) ==
  [g EXCEPT !.dW = 0, !.dR = 0, !.dbx = 0, !.dbr = 0, !.dh = 0,
            !.zero_vector = Zero]

\* faulty variant: the previous hidden state is taken from slice i instead of i - 1
GradHArg_SameStep(k) ==
  IF k # 0 THEN [buf |-> "h_vector", idx |-> k]
           ELSE [buf |-> "zero_vector", idx |-> 0]

\* Tensor h = i != 0 ? h_vector.SubSlice(i - 1) : zero_vector
GradHArg(k) ==
  IF k # 0 THEN [buf |-> "h_vector", idx |-> k - 1]
           ELSE [buf |-> "zero_vector", idx |-> 0]
GradMaskArg(k) == IF grad_has_zoneout THEN k ELSE Null

\* the arguments of backward.Iterate in loop iteration k
GradIterateArgs(k) ==
  [ x |-> k, h |-> GradHArg(k), v |-> k, dh_new |-> k, dx |-> k,
    dp |-> k, dq |-> k, zoneout_mask |-> GradMaskArg(k) ]

\* faulty variant: the reverse loop starts at time_steps
GradFirstStep_OffByOne == input[1]

\* int64 i = time_steps - 1
GradFirstStep == grad_time_steps - 1
\* --i
GradNextStep(k) == k - 1

\* what the h argument points to holds when the call is issued
GradHContent(a) ==
  IF a.h.buf = "zero_vector" THEN grads.zero_vector ELSE Written("h", a.h.idx)

\* BackwardPass::Iterate: the term step t adds to dW, dR, dbx and dbr
GradContribution(t) == 2 ^ t

\* BackwardPass::Iterate: accumulates into dW, dR, dbx, dbr, replaces dh
BackwardIterateGrads(g, a) ==
  [g EXCEPT !.dW = @ + GradContribution(a.x), !.dR = @ + GradContribution(a.x),
            !.dbx = @ + GradContribution(a.x), !.dbr = @ + GradContribution(a.x),
            !.dh = a.x + 1]
\* BackwardPass::Iterate: writes dx
BackwardIterateDx(d, a) ==
  [d EXCEPT !.data = [k \in DOMAIN d.data |->
     IF k = a.dx + 1 THEN Written("dx", a.x) ELSE d.data[k]]]

\* lines 254-269: read the inputs; nothing is checked
BwdBegin ==
  /\ pc \in {"fwd_done", "fwd_rejected"}
  /\ pc' = "bwd_alloc"
  /\ status' = "OK"
  /\ UNCHANGED <<opvars, i, fwdvars, bwdvars, hvars>>

\* lines 271-314: allocate the outputs and the temporaries
BwdAllocate ==
  /\ pc = "bwd_alloc"
  /\ dx' = Allocate(dx_shape)
  /\ grads' = GradAllocate(garbage)
  /\ pc' = "bwd_memset"
  /\ UNCHANGED <<opvars, status, i, fwdvars, backward, bwd_calls, hvars>>

\* lines 316-321
BwdMemset ==
  /\ pc = "bwd_memset"
  /\ grads' = GradMemset(grads)
  /\ pc' = "bwd_construct"
  /\ UNCHANGED <<opvars, status, i, fwdvars, dx, backward, bwd_calls, hvars>>

\* lines 323-329: construct the engine, i = time_steps - 1
BwdConstruct ==
  /\ pc = "bwd_construct"
  /\ CallGetCublasHandle(1)
  /\ backward' = [constructed |-> TRUE, batch_size |-> grad_batch_size,
                  input_size |-> grad_input_size, hidden_size |-> grad_hidden_size,
                  handle |-> tret'[1].handle]
  /\ i' = GradFirstStep
  /\ pc' = "bwd_loop"
  /\ UNCHANGED <<opvars, status, fwdvars, dx, grads, bwd_calls>>

\* lines 329-361: one iteration of the reverse loop
BwdIterate ==
  /\ pc = "bwd_loop"
  /\ i >= 0
  /\ LET a == GradIterateArgs(i) IN
       /\ bwd_calls' = Append(bwd_calls,
            [t |-> i, args |-> a, h_content |-> GradHContent(a), acc |-> grads])
       /\ grads' = BackwardIterateGrads(grads, a)
       /\ dx' = BackwardIterateDx(dx, a)
  /\ i' = GradNextStep(i)
  /\ UNCHANGED <<opvars, pc, status, fwdvars, backward, hvars>>

\* line 329, condition false: Compute returns
BwdReturn ==
  /\ pc = "bwd_loop"
  /\ ~(i >= 0)
  /\ pc' = "bwd_done"
  /\ UNCHANGED <<opvars, status, i, fwdvars, bwdvars, hvars>>

\* ------------------------------------------- GetCublasHandle (many threads)
\* the application selects device d on thread t between two calls
SetDevice(t, d) ==
  /\ tpc[t] = "idle"
  /\ tdev[t] # d
  /\ tdev' = [tdev EXCEPT ![t] = d]
  /\ UNCHANGED <<opvars, pc, status, i, fwdvars, bwdvars,
                 guard, ctor, handles, created, destroyed, exited, dtor, tpc, tret>>

\* thread t calls GetCublasHandle() with device tdev[t] selected
HandleCall(t) ==
  /\ tpc[t] = "idle"
  /\ tpc' = [tpc EXCEPT ![t] = "static_init"]
  /\ tret' = [tret EXCEPT ![t] = [selected |-> tdev[t], device |-> Null,
                                  handle |-> NoHandle]]
  /\ UNCHANGED <<opvars, pc, status, i, fwdvars, bwdvars,
                 guard, ctor, handles, created, destroyed, exited, dtor, tdev>>

\* line 66 with the static not yet initialised: t starts the constructor
\* (lines 44-47: cudaGetDevice(&current_device), i = 0)
HandleCtorBegin(t) ==
  /\ tpc[t] = "static_init"
  /\ StaticInitNeeded
  /\ guard' = "running"
  /\ ctor' = [ctor EXCEPT ![t] = [i |-> 0, current_device |-> tdev[t]]]
  /\ tpc' = [tpc EXCEPT ![t] = "ctor"]
  /\ UNCHANGED <<opvars, pc, status, i, fwdvars, bwdvars,
                 handles, created, destroyed, exited, dtor, tdev, tret>>

\* lines 48-53: cudaSetDevice(i); cublasCreate(&handle); handles.push_back
HandleCtorStep(t) ==
  /\ tpc[t] = "ctor"
  /\ ctor[t].i < NumDevices
  /\ tdev' = [tdev EXCEPT ![t] = ctor[t].i]
  /\ handles' = Append(handles, NewHandle(ctor[t].i))
  /\ created' = [created EXCEPT ![ctor[t].i] = @ + 1]
  /\ ctor' = [ctor EXCEPT ![t].i = @ + 1]
  /\ UNCHANGED <<opvars, pc, status, i, fwdvars, bwdvars,
                 guard, destroyed, exited, dtor, tpc, tret>>

\* line 54: cudaSetDevice(current_device); the static is initialised
HandleCtorEnd(t) ==
  /\ tpc[t] = "ctor"
  /\ ~(ctor[t].i < NumDevices)
  /\ tdev' = [tdev EXCEPT ![t] = ctor[t].current_device]
  /\ guard' = "done"
  /\ tpc' = [tpc EXCEPT ![t] = "read"]
  /\ UNCHANGED <<opvars, pc, status, i, fwdvars, bwdvars,
                 ctor, handles, created, destroyed, exited, dtor, tret>>

\* line 66 with the static initialised: nothing to construct
HandleCtorSkip(t) ==
  /\ tpc[t] = "static_init"
  /\ StaticInitDone
  /\ tpc' = [tpc EXCEPT ![t] = "read"]
  /\ UNCHANGED <<opvars, pc, status, i, fwdvars, bwdvars,
                 guard, ctor, handles, created, destroyed, exited, dtor, tdev, tret>>

\* lines 67-69: cudaGetDevice(&device); return all_handles.handles[device]
HandleReturn(t) ==
  /\ tpc[t] = "read"
  /\ \E hd \in ReadHandles(handles, tdev[t]) :
       tret' = [tret EXCEPT ![t] = [selected |-> tret[t].selected,
                                    device |-> tdev[t],
                                    handle |-> hd]]
  /\ tpc' = [tpc EXCEPT ![t] = "idle"]
  /\ UNCHANGED <<opvars, pc, status, i, fwdvars, bwdvars,
                 guard, ctor, handles, created, destroyed, exited, dtor, tdev>>

\* the process starts to shut down (exit, or return from main); nothing
\* stops the other threads, and nothing makes shutdown wait for them
ExitBegin ==
  /\ ~exited
  /\ exited' = TRUE
  /\ UNCHANGED <<opvars, pc, status, i, fwdvars, bwdvars,
                 guard, ctor, handles, created, destroyed, dtor, tpc, tdev, tret>>

\* lines 58-59: ~CublasHandleContainer, run at shutdown once the static has
\* been constructed: one cublasDestroy per loop iteration
DtorStep ==
  /\ exited
  /\ StaticInitDone
  /\ ~dtor.done
  /\ dtor.i < Len(handles)
  /\ destroyed' = destroyed \cup {handles[dtor.i + 1]}
  /\ dtor' = [dtor EXCEPT !.i = @ + 1]
  /\ UNCHANGED <<opvars, pc, status, i, fwdvars, bwdvars,
                 guard, ctor, handles, created, exited, tpc, tdev, tret>>

\* lines 60-62: the loop is over, the vector member is destroyed
DtorEnd ==
  /\ exited
  /\ StaticInitDone
  /\ ~dtor.done
  /\ ~(dtor.i < Len(handles))
  /\ dtor' = [dtor EXCEPT !.done = TRUE]
  /\ UNCHANGED <<opvars, pc, status, i, fwdvars, bwdvars,
                 guard, ctor, handles, created, destroyed, exited, tpc, tdev, tret>>

\* ------------------------------------------------------------ specification
NoEngine == [constructed |-> FALSE]
NoGrads == [allocated |-> FALSE, dW |-> 0, dR |-> 0, dbx |-> 0, dbr |-> 0,
            dh |-> 0, zero_vector |-> Uninit]
NoCtor == [i |-> 0, current_device |-> 0]
NoDtor == [i |-> 0, done |-> FALSE]

InitHandles ==
  /\ guard = "uninit"
  /\ ctor = [t \in Threads |-> NoCtor]
  /\ handles = <<>>
  /\ created = [d \in Devices |-> 0]
  /\ destroyed = {}
  /\ exited = FALSE
  /\ dtor = NoDtor
  /\ tpc = [t \in Threads |-> "idle"]
  /\ tdev = [t \in Threads |-> 0]
  /\ tret = [t \in Threads |-> NoReturn]

InitOp ==
  /\ pc = "idle"
  /\ status = "OK"
  /\ i = 0
  /\ output = NotAllocated
  /\ v_out = NotAllocated
  /\ h = 0
  /\ forward = NoEngine
  /\ fwd_calls = <<>>
  /\ dx = NotAllocated
  /\ grads = NoGrads
  /\ backward = NoEngine
  /\ bwd_calls = <<>>

\* the op's inputs: x [T,N,C], kernel [C',3H'], recurrent_kernel [H,3H], a
\* zoneout mask that is empty or [T,N',H], and the two attributes
Init ==
  /\ input \in {<<t, n, c>> : t \in 0..MaxT, n \in Dims, c \in PosDims}
  /\ kernel \in {<<c, 3 * hh>> : c \in PosDims, hh \in PosDims}
  /\ recurrent_kernel \in {<<hh, 3 * hh>> : hh \in Dims}
  /\ zoneout_mask \in {<<0, 0, 0>>}
        \cup {<<input[1], n, recurrent_kernel[1]>> : n \in PosDims}
  /\ training_ \in BOOLEAN
  /\ zoneout_prob_ \in ProbValues
  /\ garbage \in GarbageValues
  /\ InitOp
  /\ InitHandles

Next ==
  \/ FwdBegin
  \/ FwdAllocate
  \/ FwdMemset
  \/ FwdConstruct
  \/ FwdIterate
  \/ FwdReturn
  \/ BwdBegin
  \/ BwdAllocate
  \/ BwdMemset
  \/ BwdConstruct
  \/ BwdIterate
  \/ BwdReturn

Spec == Init /\ [][Next]_vars

\* threads of one process calling GetCublasHandle with any device selected
InitThreads ==
  /\ input = <<0, 1, 1>>
  /\ kernel = <<1, 3>>
  /\ recurrent_kernel = <<1, 3>>
  /\ zoneout_mask = <<0, 0, 0>>
  /\ training_ = FALSE
  /\ zoneout_prob_ = 0
  /\ garbage = 0
  /\ InitOp
  /\ guard = "uninit"
  /\ ctor = [t \in Threads |-> NoCtor]
  /\ handles = <<>>
  /\ created = [d \in Devices |-> 0]
  /\ destroyed = {}
  /\ exited = FALSE
  /\ dtor = NoDtor
  /\ tpc = [t \in Threads |-> "idle"]
  /\ tdev \in [Threads -> Devices]
  /\ tret = [t \in Threads |-> NoReturn]

NextThreads ==
  \/ \E t \in Threads, d \in Devices : SetDevice(t, d)
  \/ \E t \in Threads : HandleCall(t)
  \/ \E t \in Threads : HandleCtorBegin(t)
  \/ \E t \in Threads : HandleCtorStep(t)
  \/ \E t \in Threads : HandleCtorEnd(t)
  \/ \E t \in Threads : HandleCtorSkip(t)
  \/ \E t \in Threads : HandleReturn(t)
  \/ ExitBegin
  \/ DtorStep
  \/ DtorEnd

SpecThreads == InitThreads /\ [][NextThreads]_vars

\* ===================================================================== claims
FwdFinished == forward.constructed /\ pc # "fwd_loop"
BwdFinished == pc = "bwd_done"
T == input[1]
N == input[2]
C == input[3]
H == recurrent_kernel[1]

\* sum of the contributions of the first n calls of the reverse loop
RECURSIVE SumContributions(_)
SumContributions(n) ==
  IF n = 0 THEN 0 ELSE SumContributions(n - 1) + GradContribution(bwd_calls[n].t)

\* sum of the contributions of steps 0 .. n-1
RECURSIVE SumSteps(_)
SumSteps(n) == IF n = 0 THEN 0 ELSE SumSteps(n - 1) + GradContribution(n - 1)

\* C1: the forward driver issues its Iterate calls for t = 0, 1, ... in
\* ascending order, exactly T of them once it has returned; the call for step t
\* reads x[t], writes output slice t, and its previous-hidden-state argument
\* holds, when the call is issued, zero (t = 0) or what call t-1 wrote.
C1_ForwardCallsAscending ==
  /\ Len(fwd_calls) <= T
  /\ FwdFinished => Len(fwd_calls) = T
  /\ \A k \in 1..Len(fwd_calls) :
       /\ fwd_calls[k].t = k - 1
       /\ fwd_calls[k].args.x = k - 1
       /\ fwd_calls[k].args.new_h = k - 1
       /\ fwd_calls[k].h_content = IF k = 1 THEN Zero ELSE Written("h", k - 2)

C1_Witness == pc = "fwd_done" /\ Len(fwd_calls) >= 3

\* C2: the backward driver issues its Iterate calls for t = T-1, ..., 0 in
\* descending order, exactly T of them once it has returned; the call for step
\* t receives x[t], v[t], dh_new[t] and, as previous hidden state, h[t-1] when
\* t > 0 and the zero vector when t = 0.
C2_BackwardCallsDescending ==
  /\ Len(bwd_calls) <= T
  /\ BwdFinished => Len(bwd_calls) = T
  /\ \A k \in 1..Len(bwd_calls) :
       LET c == bwd_calls[k] IN
       /\ c.t = T - k
       /\ c.args.x = c.t
       /\ c.args.v = c.t
       /\ c.args.dh_new = c.t
       /\ c.t > 0 => c.args.h = [buf |-> "h_vector", idx |-> c.t - 1]
       /\ c.t = 0 => c.args.h.buf = "zero_vector" /\ c.h_content = Zero

C2_Witness == BwdFinished /\ Len(bwd_calls) >= 3

\* C3 as stated: the first Iterate call of the reverse loop uses the zero
\* vector as previous hidden state.
C3_FirstCallUsesZeroVector ==
  Len(bwd_calls) >= 1 => bwd_calls[1].args.h.buf = "zero_vector"

\* C3 amended: the zero vector is the previous hidden state of the call for
\* step 0 and of no other call; that call is the last one of the reverse loop,
\* and the first call uses the zero vector only when T = 1.
C3_LastCallUsesZeroVector ==
  /\ \A k \in 1..Len(bwd_calls) :
       /\ bwd_calls[k].args.h.buf = "zero_vector" <=> bwd_calls[k].t = 0
       /\ bwd_calls[k].args.h.buf = "zero_vector" => bwd_calls[k].h_content = Zero
  /\ Len(bwd_calls) >= 1 =>
       (bwd_calls[1].args.h.buf = "zero_vector" <=> T = 1)
  /\ (BwdFinished /\ T >= 1) =>
       bwd_calls[Len(bwd_calls)].args.h.buf = "zero_vector"

C3_Witness ==
  /\ BwdFinished
  /\ T >= 2
  /\ bwd_calls[1].args.h.buf = "h_vector"
  /\ bwd_calls[Len(bwd_calls)].args.h.buf = "zero_vector"

\* zoneout is off: probability 0 or an empty mask (section 6)
ZoneoutDisabled == zoneout_prob_ = 0 \/ NumElements(zoneout_mask) = 0

\* C4: both drivers pass a null mask to every Iterate call exactly when the
\* zoneout probability is 0 or the mask is empty, and mask slice t otherwise.
C4_SameZoneoutDecision ==
  /\ \A k \in 1..Len(fwd_calls) :
       fwd_calls[k].args.zoneout_mask =
         IF ZoneoutDisabled THEN Null ELSE fwd_calls[k].t
  /\ \A k \in 1..Len(bwd_calls) :
       bwd_calls[k].args.zoneout_mask =
         IF ZoneoutDisabled THEN Null ELSE bwd_calls[k].t

\* C5: dW, dR, dbx, dbr and dh are zero when the first Iterate call is issued;
\* at every later call each accumulator holds the sum of what the earlier
\* calls added, and after the loop the sum over all T steps; every slice dx[t]
\* is passed to the call for step t and to no other.
C5_AccumulatorsSumContributions ==
  /\ \A k \in 1..Len(bwd_calls) :
       LET a == bwd_calls[k].acc IN
       /\ a.dW = SumContributions(k - 1)
       /\ a.dR = SumContributions(k - 1)
       /\ a.dbx = SumContributions(k - 1)
       /\ a.dbr = SumContributions(k - 1)
       /\ k = 1 => a.dh = 0
       /\ bwd_calls[k].args.dx = bwd_calls[k].t
       /\ \A j \in 1..Len(bwd_calls) :
            bwd_calls[j].args.dx = bwd_calls[k].args.dx => j = k
  /\ BwdFinished =>
       /\ grads.dW = SumSteps(T)
       /\ grads.dR = SumSteps(T)
       /\ grads.dbx = SumSteps(T)
       /\ grads.dbr = SumSteps(T)
       /\ \A t \in 0..(T - 1) : \E k \in 1..Len(bwd_calls) : bwd_calls[k].args.dx = t

C5_Witness == BwdFinished /\ Len(bwd_calls) >= 2 /\ garbage # 0

\* a configuration error of section 7: a feature, hidden or batch dimension
\* that differs between the supplied tensors, or a zero batch or hidden size
ConfigError ==
  \/ C # kernel[1]
  \/ kernel[2] # 3 * H
  \/ (NumElements(zoneout_mask) # 0 /\ zoneout_mask[2] # N)
  \/ N = 0
  \/ H = 0

\* C6: with T = 0 and an otherwise legal configuration the forward driver
\* returns without error, without an Iterate call and with empty h and v; the
\* backward driver returns without error, without an Iterate call and with
\* dW, dR, dbx and dbr all zero.
C6_ZeroLengthSequence ==
  (T = 0 /\ ~ConfigError) =>
    /\ status = "OK"
    /\ pc # "fwd_rejected"
    /\ fwd_calls = <<>>
    /\ bwd_calls = <<>>
    /\ FwdFinished =>
         /\ output.shape = <<0, N, H>> /\ output.data = <<>>
         /\ v_out.shape[1] = 0 /\ v_out.data = <<>>
    /\ BwdFinished =>
         /\ grads.allocated
         /\ grads.dW = 0 /\ grads.dR = 0 /\ grads.dbx = 0 /\ grads.dbr = 0

C6_Witness == BwdFinished /\ FwdFinished /\ T = 0 /\ ~ConfigError /\ garbage # 0

\* C7: a configuration error is rejected by either driver before any output
\* is allocated and before any Iterate call; T = 0 alone is not rejected.
C7_ConfigErrorsRejected ==
  /\ ConfigError =>
       /\ ~IsAllocated(output) /\ ~IsAllocated(v_out)
       /\ ~IsAllocated(dx) /\ ~grads.allocated
       /\ fwd_calls = <<>> /\ bwd_calls = <<>>
       /\ pc \in {"fwd_done", "bwd_done"} => status # "OK"
  /\ (T = 0 /\ ~ConfigError) => status = "OK"

\* C8: at most one handle is ever created per device, none is destroyed
\* before process shutdown, and a call made with device d selected returns
\* the handle created for device d.
C8_OneHandlePerDevice ==
  /\ \A d \in Devices : created[d] <= 1
  /\ Len(handles) <= NumDevices
  /\ destroyed # {} => exited
  /\ \A t \in Threads :
       tret[t].handle # NoHandle =>
         /\ created[tret[t].selected] = 1
         /\ tret[t].handle = [dev |-> tret[t].selected, serial |-> 1]
         /\ tret[t].handle = handles[tret[t].selected + 1]

\* what does hold of the handle cache: one handle per device, none destroyed
\* before shutdown begins, and every call that returns while the process is
\* not shutting down returns the handle created for the device selected
HandleCacheUntilShutdown ==
  /\ \A d \in Devices : created[d] <= 1
  /\ Len(handles) <= NumDevices
  /\ destroyed # {} => exited
  /\ ~exited =>
       \A t \in Threads :
         tret[t].handle # NoHandle =>
           /\ tret[t].handle = [dev |-> tret[t].selected, serial |-> 1]
           /\ tret[t].handle = handles[tret[t].selected + 1]
           /\ tret[t].handle \notin destroyed

\* a call entered and returned between two cublasDestroy calls of the
\* destructor: the handle it returns is destroyed right after
ReturnedDuringDestruction ==
  \E t \in Threads :
    /\ exited /\ ~dtor.done /\ destroyed # {}
    /\ tret[t].handle # NoHandle
    /\ tret[t].handle \notin destroyed

\* C9: the allocated h has shape [T,N,H]; the allocated v has shape [T,N,4H]
\* when training and [T,N,0] otherwise; the v pointer given to Iterate is
\* non-null exactly when training.
C9_OutputShapes ==
  /\ IsAllocated(output) => output.shape = <<T, N, H>>
  /\ IsAllocated(v_out) =>
       v_out.shape = IF training_ THEN <<T, N, 4 * H>> ELSE <<T, N, 0>>
  /\ \A k \in 1..Len(fwd_calls) :
       /\ fwd_calls[k].args.v # Null <=> training_
       /\ training_ => fwd_calls[k].args.v = fwd_calls[k].t

C9_Witness ==
  /\ pc = "fwd_done" /\ ~training_ /\ ~ConfigError /\ T >= 1
  /\ v_out.shape = <<T, N, 0>>
  /\ HasteGruShapeFn[1] = output.shape

\* C10: the previous-hidden-state pointer and the write target of one forward
\* Iterate call are the same buffer exactly at step 0 (output slice 0, zero at
\* that moment); at step t >= 1 they are slices t-1 and t; no slice with an
\* index above t is an input of step t.
C10_AliasOnlyAtStepZero ==
  \A k \in 1..Len(fwd_calls) :
    LET c == fwd_calls[k] IN
    /\ c.args.h = c.args.new_h <=> c.t = 0
    /\ c.t = 0 => c.args.h = 0 /\ c.args.new_h = 0 /\ c.h_content = Zero
    /\ c.t >= 1 => c.args.h = c.t - 1 /\ c.args.new_h = c.t
    /\ c.args.h <= c.t
    /\ c.args.x <= c.t
    /\ c.args.tmp_Wx <= c.t

C10_Witness ==
  /\ Len(fwd_calls) >= 2
  /\ fwd_calls[1].args.h = fwd_calls[1].args.new_h
  /\ fwd_calls[2].args.h # fwd_calls[2].args.new_h

====
